---- MODULE Spec2Model ----
(***************************************************************************)
(* Model of the Conan recipe conan/conan-mbedtls.py (class MbedTLS).       *)
(*                                                                         *)
(* The recipe's methods are run by the host package manager in the order   *)
(* of the ConanFile protocol: export of exports_sources, source(),         *)
(* generate(), build(), package(), package_info().  A Python exception     *)
(* raised by a tool call leaves the method at once and ends the run.       *)
(* Every statement that calls an external tool is one step of the model;   *)
(* the tools (git, patch, cmake) are external, so their outcome is a       *)
(* nondeterministic choice between success and failure.                    *)
(*                                                                         *)
(* Strings on which the recipe computes (names, revisions, paths) are      *)
(* sequences of one-character strings.                                     *)
(***************************************************************************)
EXTENDS Integers, Sequences, FiniteSets, TLC

----------------------------------------------------------------------------
(* Bounds of the model *)

\* recipe invocations in one behaviour
MaxRuns == 3
\* files touched by the bundled patch
NumPatchItems == 2
\* revisions an author may pin (v3.5.0, v3.6.0, ...)
NumRevisions == 4
\* distinct contents the bundled patch file may have
NumPatchContents == 3

PatchItems == 1..NumPatchItems

----------------------------------------------------------------------------
(* String helpers *)

Last(s) == s[Len(s)]

IsSuffix(p, s) == Len(p) <= Len(s) /\ SubSeq(s, Len(s) - Len(p) + 1, Len(s)) = p

\* p occurs in s as a contiguous substring
IsSubstring(p, s) ==
    \E i \in 0..(Len(s) - Len(p)) : SubSeq(s, i + 1, i + Len(p)) = p

\* the part of s after its last "/"
RECURSIVE LastSegment(_)
LastSegment(s) ==
    IF s = <<>> THEN <<>>
    ELSE IF Last(s) = "/" THEN <<>>
    ELSE Append(LastSegment(SubSeq(s, 1, Len(s) - 1)), Last(s))

StripSuffix(s, suf) ==
    IF IsSuffix(suf, s) THEN SubSeq(s, 1, Len(s) - Len(suf)) ELSE s

\* os.path.join(a, b)
join(a, b) ==
    IF b # <<>> /\ Head(b) = "/" THEN b
    ELSE IF a = <<>> \/ Last(a) = "/" THEN a \o b
    ELSE a \o <<"/">> \o b

DotGit == <<".", "g", "i", "t">>

\* directory "git clone <url>" creates when no target is given: the last
\* path component of the url without a trailing ".git"
RepoDir(u) == StripSuffix(LastSegment(u), DotGit)

----------------------------------------------------------------------------
(* Class attributes of MbedTLS *)

name == <<"m", "b", "e", "d", "t", "l", "s">>

branch == <<"v", "3", ".", "5", ".", "0">>

\* the version line names the bare revision, with no patch marker
version_raw == branch

version == <<"p", "a", "t", "c", "h", "e", "d", "-", "v", "3", ".", "5", ".", "0">>

\* f"{name}-{branch}.patch"
patch_file(b) == name \o <<"-">> \o b \o <<".", "p", "a", "t", "c", "h">>

\* the class body evaluated with revision b pinned on the branch line
MbedTLS(b) ==
    [ name            |-> name,
      branch          |-> b,
      version         |-> version,
      patch_file      |-> patch_file(b),
      exports_sources |-> patch_file(b) ]

\* "https://github.com/Mbed-TLS/mbedtls.git"
url ==
    <<"h", "t", "t", "p", "s", ":", "/", "/">>
    \o <<"g", "i", "t", "h", "u", "b", ".", "c", "o", "m", "/">>
    \o <<"M", "b", "e", "d", "-", "T", "L", "S", "/">>
    \o <<"m", "b", "e", "d", "t", "l", "s", ".", "g", "i", "t">>

\* folder the host hands to the recipe as self.export_sources_folder
export_sources_folder == <<"e", "s">>

\* the source folder itself: what build_script_folder defaults to
Root == <<>>

Dirs == {Root, name, RepoDir(url)}

----------------------------------------------------------------------------
(* State *)

VARIABLES
    pc,              \* statement the run is at, or "done" / "failed"
    state,           \* lifecycle state reached by the run
    error,           \* error that ended the run, or "none"
    settings,        \* build context the host supplies for the run
    exported,        \* files present in export_sources_folder
    fs,              \* content of each directory under the source folder
    toolchain,       \* toolchain file written by generate()
    build_tree,      \* the build folder
    package_folder,  \* install output: "empty", "partial" or "complete"
    cpp_info,        \* what package_info() has declared
    calls,           \* tool invocations of this run, in order, with outcome
    run,             \* number of the current run
    authored         \* two copies of the recipe under authoring

vars == <<pc, state, error, settings, exported, fs, toolchain, build_tree,
          package_folder, cpp_info, calls, run, authored>>

runvars == <<pc, state, error, settings, exported, fs, toolchain, build_tree,
             package_folder, cpp_info, calls, run>>

\* the recipe that is run: the first copy, as written unless edited
self == authored[1].recipe

States == <<"uninitialized", "sourced", "patched", "configured", "built",
            "installed", "described">>

Rank(s) == CHOOSE i \in 1..Len(States) : States[i] = s

BuildTypes == {"Release", "Debug"}

Absent == [rev |-> <<>>, applied |-> {}, present |-> FALSE]

Tree(rev, applied) == [rev |-> rev, applied |-> applied, present |-> TRUE]

NoToolchain == [generated |-> FALSE, build_type |-> "none"]

None == [configured |-> FALSE, from |-> Absent, variables |-> <<>>,
         build_type |-> "none", built |-> FALSE]

NoInfo == [builddirs |-> <<>>, properties |-> <<>>]

Call(op, arg, ok) == [op |-> op, arg |-> arg, ok |-> ok]

\* an exception leaves the method: the run ends in the state it had reached
Raise(e) ==
    /\ pc' = "failed"
    /\ error' = e
    /\ UNCHANGED state

Init ==
    /\ pc = "export"
    /\ state = "uninitialized"
    /\ error = "none"
    /\ settings \in [build_type : BuildTypes]
    /\ exported = {}
    /\ fs = [d \in Dirs |-> Absent]
    /\ toolchain = NoToolchain
    /\ build_tree = None
    /\ package_folder = "empty"
    /\ cpp_info = NoInfo
    /\ calls = <<>>
    /\ run = 1
    /\ authored = <<[recipe |-> MbedTLS(branch), patch |-> 1],
                    [recipe |-> MbedTLS(branch), patch |-> 1]>>

----------------------------------------------------------------------------
(* Steps of a run *)

\* exports_sources = patch_file: the patch is copied into
\* export_sources_folder when it is bundled with the recipe
export ==
    /\ pc = "export"
    /\ \E bundled \in BOOLEAN :
          exported' = IF bundled
                      THEN {join(export_sources_folder, self.exports_sources)}
                      ELSE {}
    /\ pc' = "source_clone"
    /\ UNCHANGED <<state, error, settings, fs, toolchain, build_tree,
                   package_folder, cpp_info, calls, run, authored>>

\* source(): git.clone(url, args=clone_args)
source_clone ==
    /\ pc = "source_clone"
    /\ LET clone_args == <<"--depth", "1", "--branch", self.branch>>
           target == RepoDir(url)
       IN  \E ok \in BOOLEAN :
              /\ calls' = Append(calls, Call("clone", target, ok))
              /\ IF ok
                 THEN /\ fs' = [fs EXCEPT ![target] = Tree(clone_args[4], {})]
                      /\ state' = "sourced"
                      /\ pc' = "source_patch"
                      /\ UNCHANGED error
                 ELSE /\ Raise("RetrievalError")
                      /\ UNCHANGED fs
    /\ UNCHANGED <<settings, exported, toolchain, build_tree, package_folder,
                   cpp_info, run, authored>>

\* source() with the result of patch() ignored: the run goes on whether or
\* not the patch was found and applied
source_patch_unchecked ==
    /\ pc = "source_patch"
    /\ LET path == join(export_sources_folder, self.patch_file)
           base_path == self.name
       IN  IF path \notin exported \/ ~fs[base_path].present
           THEN /\ calls' = Append(calls, Call("patch", base_path, FALSE))
                /\ UNCHANGED <<fs, state>>
           ELSE \E applied \in SUBSET PatchItems :
                   /\ calls' = Append(calls, Call("patch", base_path,
                                                  applied = PatchItems))
                   /\ fs' = [fs EXCEPT ![base_path].applied = applied]
                   /\ state' = IF applied = PatchItems THEN "patched" ELSE state
    /\ pc' = "generate"
    /\ UNCHANGED <<error, settings, exported, toolchain, build_tree,
                   package_folder, cpp_info, run, authored>>

\* source() applying the patch only when the file is there
source_patch_if_exists ==
    /\ pc = "source_patch"
    /\ LET path == join(export_sources_folder, self.patch_file)
           base_path == self.name
       IN  IF path \notin exported
           THEN /\ pc' = "generate"
                /\ UNCHANGED <<calls, fs, state, error>>
           ELSE IF ~fs[base_path].present
           THEN /\ calls' = Append(calls, Call("patch", base_path, FALSE))
                /\ Raise("PatchError")
                /\ UNCHANGED fs
           ELSE \E applied \in SUBSET PatchItems :
                   /\ calls' = Append(calls, Call("patch", base_path,
                                                  applied = PatchItems))
                   /\ fs' = [fs EXCEPT ![base_path].applied = applied]
                   /\ IF applied = PatchItems
                      THEN /\ state' = "patched"
                           /\ pc' = "generate"
                           /\ UNCHANGED error
                      ELSE Raise("PatchError")
    /\ UNCHANGED <<settings, exported, toolchain, build_tree, package_folder,
                   cpp_info, run, authored>>

\* source(): patch(self, patch_file=os.path.join(self.export_sources_folder,
\* self.patch_file), base_path=self.name).  patch() raises when the file
\* cannot be read or when a file of the patch does not apply; the files that
\* did apply stay modified.
source_patch ==
    /\ pc = "source_patch"
    /\ LET path == join(export_sources_folder, self.patch_file)
           base_path == self.name
       IN  IF path \notin exported \/ ~fs[base_path].present
           THEN /\ calls' = Append(calls, Call("patch", base_path, FALSE))
                /\ Raise("PatchError")
                /\ UNCHANGED fs
           ELSE \E applied \in SUBSET PatchItems :
                   /\ calls' = Append(calls, Call("patch", base_path,
                                                  applied = PatchItems))
                   /\ fs' = [fs EXCEPT ![base_path].applied = applied]
                   /\ IF applied = PatchItems
                      THEN /\ state' = "patched"
                           /\ pc' = "generate"
                           /\ UNCHANGED error
                      ELSE Raise("PatchError")
    /\ UNCHANGED <<settings, exported, toolchain, build_tree, package_folder,
                   cpp_info, run, authored>>

\* generate(): tc = CMakeToolchain(self); tc.generate()
generate ==
    /\ pc = "generate"
    /\ toolchain' = [generated |-> TRUE, build_type |-> settings.build_type]
    /\ pc' = "build_configure"
    /\ UNCHANGED <<state, error, settings, exported, fs, build_tree,
                   package_folder, cpp_info, calls, run, authored>>

\* build() calling cmake.configure(variables=variables): the build script is
\* looked up in the source folder itself
build_configure_default_folder ==
    /\ pc = "build_configure"
    /\ LET variables == [ENABLE_TESTING |-> "OFF", ENABLE_PROGRAMS |-> "OFF"]
           build_script_folder == Root
       IN  \E exit \in {0, 1} :
              LET ok == exit = 0 /\ toolchain.generated
                        /\ fs[build_script_folder].present
              IN  /\ calls' = Append(calls,
                                     Call("configure", build_script_folder, ok))
                  /\ IF ok
                     THEN /\ build_tree' = [configured |-> TRUE,
                                            from |-> fs[build_script_folder],
                                            variables |-> variables,
                                            build_type |-> toolchain.build_type,
                                            built |-> FALSE]
                          /\ state' = "configured"
                          /\ pc' = "build_build"
                          /\ UNCHANGED error
                     ELSE /\ Raise("ConfigurationError")
                          /\ UNCHANGED build_tree
    /\ UNCHANGED <<settings, exported, fs, toolchain, package_folder,
                   cpp_info, run, authored>>

\* build() going on to cmake.build() whatever cmake.configure() returned
build_configure_unchecked ==
    /\ pc = "build_configure"
    /\ LET variables == [ENABLE_TESTING |-> "OFF", ENABLE_PROGRAMS |-> "OFF"]
           build_script_folder == self.name
       IN  \E exit \in {0, 1} :
              LET ok == exit = 0 /\ toolchain.generated
                        /\ fs[build_script_folder].present
              IN  /\ calls' = Append(calls,
                                     Call("configure", build_script_folder, ok))
                  /\ IF ok
                     THEN /\ build_tree' = [configured |-> TRUE,
                                            from |-> fs[build_script_folder],
                                            variables |-> variables,
                                            build_type |-> toolchain.build_type,
                                            built |-> FALSE]
                          /\ state' = "configured"
                     ELSE UNCHANGED <<build_tree, state>>
                  /\ pc' = "build_build"
                  /\ UNCHANGED error
    /\ UNCHANGED <<settings, exported, fs, toolchain, package_folder,
                   cpp_info, run, authored>>

\* build(): cmake.configure(variables=variables,
\* build_script_folder=self.name); a non-zero exit raises
build_configure ==
    /\ pc = "build_configure"
    /\ LET variables == [ENABLE_TESTING |-> "OFF", ENABLE_PROGRAMS |-> "OFF"]
           build_script_folder == self.name
       IN  \E exit \in {0, 1} :
              LET ok == exit = 0 /\ toolchain.generated
                        /\ fs[build_script_folder].present
              IN  /\ calls' = Append(calls,
                                     Call("configure", build_script_folder, ok))
                  /\ IF ok
                     THEN /\ build_tree' = [configured |-> TRUE,
                                            from |-> fs[build_script_folder],
                                            variables |-> variables,
                                            build_type |-> toolchain.build_type,
                                            built |-> FALSE]
                          /\ state' = "configured"
                          /\ pc' = "build_build"
                          /\ UNCHANGED error
                     ELSE /\ Raise("ConfigurationError")
                          /\ UNCHANGED build_tree
    /\ UNCHANGED <<settings, exported, fs, toolchain, package_folder,
                   cpp_info, run, authored>>

\* build(): cmake.build(); a non-zero exit raises
build_build ==
    /\ pc = "build_build"
    /\ \E exit \in {0, 1} :
          LET ok == exit = 0 /\ build_tree.configured
          IN  /\ calls' = Append(calls, Call("build", Root, ok))
              /\ IF ok
                 THEN /\ build_tree' = [build_tree EXCEPT !.built = TRUE]
                      /\ state' = "built"
                      /\ pc' = "package"
                      /\ UNCHANGED error
                 ELSE /\ Raise("BuildError")
                      /\ UNCHANGED build_tree
    /\ UNCHANGED <<settings, exported, fs, toolchain, package_folder,
                   cpp_info, run, authored>>

\* package() returning normally whatever cmake.install() returned
package_unchecked ==
    /\ pc = "package"
    /\ \E exit \in {0, 1} :
          LET ok == exit = 0 /\ build_tree.built
          IN  /\ calls' = Append(calls, Call("install", Root, ok))
              /\ IF ok
                 THEN /\ package_folder' = "complete"
                      /\ state' = "installed"
                 ELSE /\ package_folder' \in {"empty", "partial"}
                      /\ UNCHANGED state
              /\ pc' = "package_info"
              /\ UNCHANGED error
    /\ UNCHANGED <<settings, exported, fs, toolchain, build_tree, cpp_info,
                   run, authored>>

\* package(): cmake.install(); a non-zero exit raises and leaves whatever
\* the install had written so far
package ==
    /\ pc = "package"
    /\ \E exit \in {0, 1} :
          LET ok == exit = 0 /\ build_tree.built
          IN  /\ calls' = Append(calls, Call("install", Root, ok))
              /\ IF ok
                 THEN /\ package_folder' = "complete"
                      /\ state' = "installed"
                      /\ pc' = "package_info"
                      /\ UNCHANGED error
                 ELSE /\ package_folder' \in {"empty", "partial"}
                      /\ Raise("InstallError")
    /\ UNCHANGED <<settings, exported, fs, toolchain, build_tree, cpp_info,
                   run, authored>>

\* package_info() leaving the host's own lookup mode in place
package_info_default_mode ==
    /\ pc = "package_info"
    /\ cpp_info' = [builddirs |-> <<"lib/cmake/MbedTLS/">>,
                    properties |-> <<>>]
    /\ state' = "described"
    /\ pc' = "done"
    /\ UNCHANGED <<error, settings, exported, fs, toolchain, build_tree,
                   package_folder, calls, run, authored>>

\* package_info(): cpp_info.builddirs and the cmake_find_mode property
package_info ==
    /\ pc = "package_info"
    /\ cpp_info' = [builddirs |-> <<"lib/cmake/MbedTLS/">>,
                    properties |-> <<<<"cmake_find_mode", "none">>>>]
    /\ state' = "described"
    /\ pc' = "done"
    /\ UNCHANGED <<error, settings, exported, fs, toolchain, build_tree,
                   package_folder, calls, run, authored>>

\* the recipe is invoked again: every folder of the previous run is discarded
create ==
    /\ pc \in {"done", "failed"}
    /\ run < MaxRuns
    /\ run' = run + 1
    /\ pc' = "export"
    /\ state' = "uninitialized"
    /\ error' = "none"
    /\ settings' \in [build_type : BuildTypes]
    /\ exported' = {}
    /\ fs' = [d \in Dirs |-> Absent]
    /\ toolchain' = NoToolchain
    /\ build_tree' = None
    /\ package_folder' = "empty"
    /\ cpp_info' = NoInfo
    /\ calls' = <<>>
    /\ UNCHANGED authored

Next ==
    \/ export
    \/ source_clone
    \/ source_patch
    \/ generate
    \/ build_configure
    \/ build_build
    \/ package
    \/ package_info
    \/ create

Spec == Init /\ [][Next]_vars

\* each step blocks until its subprocess exits, and the host then runs the
\* next method: a run that can take a step takes it
RunStep ==
    \/ export
    \/ source_clone
    \/ source_patch
    \/ generate
    \/ build_configure
    \/ build_build
    \/ package
    \/ package_info

FairSpec == Spec /\ WF_vars(RunStep)

----------------------------------------------------------------------------
(* Authoring: the branch line or the bundled patch of a copy is edited *)

Digits == <<"0", "1", "2", "3", "4", "5", "6", "7", "8", "9">>

\* v3.5.0, v3.6.0, ...
Revisions ==
    { <<"v", "3", ".", Digits[m + 1], ".", "0">> : m \in 5..(4 + NumRevisions) }

PatchContents == 1..NumPatchContents

set_branch ==
    \E i \in {1, 2}, b \in Revisions :
       /\ authored' = [authored EXCEPT ![i].recipe = MbedTLS(b)]
       /\ UNCHANGED runvars

set_patch ==
    \E i \in {1, 2}, c \in PatchContents :
       /\ authored' = [authored EXCEPT ![i].patch = c]
       /\ UNCHANGED runvars

NextAuthoring ==
    \/ set_branch
    \/ set_patch

SpecAuthoring == Init /\ [][NextAuthoring]_vars

----------------------------------------------------------------------------
(* Properties *)

Ops(ops) == {i \in 1..Len(calls) : calls[i].op \in ops}

Failed == {i \in 1..Len(calls) : ~calls[i].ok}

SameRun == run' = run

\* the state a run could not reach when it ended with error e
FailedAt(e) ==
    CASE e = "RetrievalError"     -> "sourced"
      [] e = "PatchError"         -> "patched"
      [] e = "ConfigurationError" -> "configured"
      [] e = "BuildError"         -> "built"
      [] e = "InstallError"       -> "installed"

PatchPath == join(export_sources_folder, self.patch_file)

PatchMissing == pc # "export" /\ PatchPath \notin exported

Finished == pc \in {"done", "failed"}

\* C1: within a run the lifecycle state either stays or moves to its
\* immediate successor in uninitialized, sourced, patched, configured,
\* built, installed, described; and install is invoked only once the build
\* has succeeded.
C1_StrictlyForward ==
    /\ [][SameRun => (state' = state \/ Rank(state') = Rank(state) + 1)]_vars
    /\ [](Ops({"install"}) # {} => build_tree.built /\ Rank(state) >= Rank("built"))

C1_Witness == state = "described" /\ Len(calls) = 5

\* C2: the Package Descriptor is declared only when configure, build and
\* install have all succeeded in this run; in a run where the patch applied
\* and configure, build or install failed it is never declared.
C2_DescriptorOnlyAfterInstall ==
    /\ cpp_info # NoInfo =>
          /\ \A op \in {"configure", "build", "install"} :
                \E i \in Ops({op}) : calls[i].ok
          /\ build_tree.built
          /\ package_folder = "complete"
    /\ (Failed \cap Ops({"configure", "build", "install"}) # {}) =>
          cpp_info = NoInfo

C2_Witness ==
    /\ fs[name] = Tree(branch, PatchItems)
    /\ error = "BuildError"
    /\ cpp_info = NoInfo

\* C3: once a tool call of a run has failed, the run has ended as failed in
\* the state it had reached, at the first state it could not reach; nothing
\* is called again and nothing changes until a new run starts from
\* uninitialized.  A run that ends otherwise ends in described after five
\* successful calls.
C3_FailureIsFatal ==
    /\ [](Failed # {} =>
             /\ pc = "failed"
             /\ Failed = {Len(calls)}
             /\ Rank(FailedAt(error)) = Rank(state) + 1)
    /\ [](pc = "failed" => Failed # {})
    /\ [](pc = "done" => state = "described" /\ error = "none" /\ Len(calls) = 5)
    /\ [][pc = "failed" =>
             \/ UNCHANGED runvars
             \/ /\ run' = run + 1
                /\ pc' = "export"
                /\ state' = "uninitialized"
                /\ calls' = <<>>
                /\ fs' = [d \in Dirs |-> Absent]]_vars

C3_Witness == pc = "failed" /\ error = "ConfigurationError" /\ run = 2

\* C5: when the patch file was not exported with the recipe, no configure,
\* build or install is ever invoked in the run, the run never gets past
\* sourced, and once patch() has been called the run has failed at patched
\* with a PatchError.
C5_MissingPatchFailsBeforeBuild ==
    PatchMissing =>
       /\ Ops({"configure", "build", "install"}) = {}
       /\ state \in {"uninitialized", "sourced"}
       /\ pc \in {"source_clone", "source_patch", "failed"}
       /\ Ops({"patch"}) # {} =>
             /\ pc = "failed"
             /\ error = "PatchError"
             /\ FailedAt(error) = "patched"
             /\ state = "sourced"

C5_Witness == PatchMissing /\ error = "PatchError" /\ Ops({"patch"}) # {}

\* C6: a patch that does not apply in full ends the run with a PatchError
\* before patched; in patched and every later state the cloned tree is the
\* pinned revision with every item of the patch applied.
C6_PatchAllOrNothing ==
    /\ (\E i \in Ops({"patch"}) : ~calls[i].ok) =>
          /\ error = "PatchError"
          /\ pc = "failed"
          /\ Rank(state) < Rank("patched")
    /\ Rank(state) >= Rank("patched") =>
          fs[RepoDir(url)] = Tree(self.branch, PatchItems)

C6_Witness ==
    /\ error = "PatchError"
    /\ fs[RepoDir(url)].present
    /\ fs[RepoDir(url)].applied \notin {{}, PatchItems}

\* C8: every configure is given the recipe-named subdirectory, which is the
\* directory an earlier successful clone wrote and an earlier successful
\* patch was applied in, never the source folder itself; a configured build
\* tree was configured from the fully patched tree.
C8_ConfigureUsesPatchedTree ==
    /\ \A i \in Ops({"configure"}) :
          /\ calls[i].arg = self.name
          /\ calls[i].arg # Root
          /\ \E j \in Ops({"clone"}) :
                j < i /\ calls[j].ok /\ calls[j].arg = calls[i].arg
          /\ \E j \in Ops({"patch"}) :
                j < i /\ calls[j].ok /\ calls[j].arg = calls[i].arg
    /\ build_tree.configured =>
          build_tree.from = Tree(self.branch, PatchItems)
    /\ Ops({"build"}) # {} => build_tree.from = Tree(self.branch, PatchItems)

C8_Witness == Ops({"configure"}) # {} /\ build_tree.built

Patched == <<"p", "a", "t", "c", "h", "e", "d">>

\* C9: the version string is not the revision string, contains the
\* revision string and contains the marker "patched".
C9_VersionEncodesPatch ==
    /\ self.version # self.branch
    /\ IsSubstring(self.branch, self.version)
    /\ IsSubstring(Patched, self.version)

\* a package described under the identity of the recipe as written
C9_Witness ==
    /\ pc = "done"
    /\ run = 2
    /\ self.version = version
    /\ self.branch = branch

Mbedtls == <<"m", "b", "e", "d", "t", "l", "s">>

V350 == <<"v", "3", ".", "5", ".", "0">>

\* C10: the recipe is mbedtls at v3.5.0; a run none of whose calls fails
\* ends in described, and the descriptor of a described run gives
\* lib/cmake/MbedTLS/ as the only build directory and sets cmake_find_mode
\* to none; every run that starts comes to its end.
C10_ScenarioA ==
    /\ [](self.name = Mbedtls /\ self.branch = V350)
    /\ [](Finished /\ Failed = {} => state = "described")
    /\ [](state = "described" =>
             /\ cpp_info.builddirs = <<"lib/cmake/MbedTLS/">>
             /\ cpp_info.properties = <<<<"cmake_find_mode", "none">>>>)
    /\ (pc = "export") ~> Finished

C10_Witness == pc = "done" /\ state = "described" /\ Failed = {} /\ run = 1

----------------------------------------------------------------------------
(* Properties of authoring *)

Identity(a) == <<a.recipe.name, a.recipe.version>>

\* C4: two copies of the recipe that differ in the pinned revision or in the
\* bundled patch differ in {name, version}.
C4_IdentityFollowsInputs ==
    (\/ authored[1].recipe.branch # authored[2].recipe.branch
     \/ authored[1].recipe.patch_file # authored[2].recipe.patch_file
     \/ authored[1].patch # authored[2].patch)
    => Identity(authored[1]) # Identity(authored[2])

====
